---- MODULE Spec2Model ----
(***************************************************************************)
(* SessionManager of jupyter_server/services/sessions/sessionmanager.py:   *)
(* the session table, the kernel manager it consults, and the coroutines   *)
(* session_exists, create_session, get_session, update_session,            *)
(* list_sessions and delete_session, cut into steps at the awaits on the   *)
(* kernel manager (kernel_model, start_kernel, shutdown_kernel).           *)
(* Everything between two such awaits runs without suspension and is one   *)
(* step.                                                                   *)
(***************************************************************************)
EXTENDS Integers, Sequences, FiniteSets, TLC

\* ------------------------------------------------------------- bounds
\* create_session calls (session ids generated) in one run
MaxSessions == 2
\* kernels started by start_kernel in one run
MaxKernels == 2
\* callers of the manager; under Spec caller 1 makes its calls one by one
NumProcs == 2
\* keyword arguments in one get_session / update_session call
MaxKeys == 2
\* bytes in a file at the path database_filepath names
MaxFileLen == 3
\* storage accesses and close() calls on one manager
MaxOps == 6
\* bytes _validate_database_filepath reads of a file (100 in the source, 15 of
\* them the signature; here the length of Signature)
ReadLen == 2

Procs == 1..NumProcs

\* ------------------------------------------------------------- values
\* Python None (kernel_id=None, no row fetched)
None == "None"

\* SessionManager._columns
Columns == {"session_id", "path", "name", "type", "kernel_id"}

\* a keyword outside _columns
Bogus == "bogus_column"

Keys == Columns \cup {Bogus}

Paths == {"/a.ipynb", "/b.ipynb"}

Names == {"a", "b"}

Types == {"notebook", "console"}

\* mutant: the id generator hands out one fixed token
new_session_id_fixed(n) == "s1"

\* uuid.uuid4() of the n-th call: a token no earlier call returned
new_session_id(n) == "s" \o ToString(n)

\* the id start_kernel gives the n-th kernel it starts
new_kernel_id(n) == "k" \o ToString(n)

SessionIds == {new_session_id(n) : n \in 1..MaxSessions}

KernelIds == {new_kernel_id(n) : n \in 1..MaxKernels}

\* a row of table session: (session_id, path, name, type, kernel_id)
Row(s, p, n, t, k) ==
    [session_id |-> s, path |-> p, name |-> n, type |-> t, kernel_id |-> k]

\* fetchone() found nothing
NoRow == Row(None, None, None, None, None)

VARIABLES
    rows,      \* table session, in rowid order
    alive,     \* kernel ids in kernel_manager
    nextSid,   \* number of the next uuid
    nextKid,   \* number of the next kernel started
    call,      \* per caller: the coroutine it runs, its locals, its outcome
    hist,      \* history: the call that completed last, if no kernel died since
    issued,    \* history: ids of the models create_session returned
    deleted,   \* history: session ids delete_session returned normally for
    database_filepath,  \* the trait SessionManager.database_filepath
    files,     \* the file system: what is at each path the trait may name
    assigned,  \* the last assignment to database_filepath and its outcome
    operands,  \* the two objects of a comparison self == other
    compared,  \* what self == other returned
    _cursor,   \* SessionManager._cursor: None or the sqlite cursor
    _connection,  \* SessionManager._connection: None or the sqlite connection
    opened,    \* the sqlite cursors and connections that are open
    oplog      \* the storage accesses and close() calls made so far

\* the session table, the kernel manager and the callers
store == <<rows, alive, nextSid, nextKid, call, hist, issued, deleted>>

\* the configuration of the manager
config == <<database_filepath, files, assigned>>

\* a comparison of SessionRecord values
comparison == <<operands, compared>>

\* the storage handle of the manager
handle == <<_cursor, _connection, opened, oplog>>

\* what the coroutines leave alone
aside == <<config, comparison, handle>>

vars == <<store, aside>>

\* ------------------------------------------------------------- configuration
\* the default of database_filepath: sqlite's in-memory database
Memory == ":memory:"

\* file paths database_filepath may be set to
DbPaths == {"/db1", "/db2"}

\* bytes of a file: the two of the signature and another one
Bytes == {"S", "3", "x"}

\* b"SQLite format 3", the signature at the start of a database file
Signature == <<"S", "3">>

\* all byte strings of at most n bytes
RECURSIVE BytesUpTo(_)
BytesUpTo(n) ==
    IF n = 0 THEN {<<>>}
    ELSE LET shorter == BytesUpTo(n - 1)
         IN  shorter \cup {Append(h, b) : h \in shorter, b \in Bytes}

\* what can be at a path: nothing, a directory, a file with its bytes
Absent == [kind |-> "absent", content |-> <<>>]

Directory == [kind |-> "dir", content |-> <<>>]

FileStates ==
    {Absent, Directory} \cup {[kind |-> "file", content |-> h] : h \in BytesUpTo(MaxFileLen)}

\* f.read(100): the first ReadLen bytes of the file
read(content) == SubSeq(content, 1, IF Len(content) < ReadLen THEN Len(content) ELSE ReadLen)

\* header.startswith(prefix)
startswith(header, prefix) ==
    /\ Len(header) >= Len(prefix)
    /\ SubSeq(header, 1, Len(prefix)) = prefix

\* raise TraitError(...)
TraitError == "TraitError"

\* mutant: an empty file is refused like any file without the signature
_validate_database_filepath_no_empty(value, fs) ==
    IF value = Memory
    THEN value
    ELSE IF fs[value].kind # "absent"
    THEN IF fs[value].kind = "dir"
         THEN TraitError
         ELSE IF ~startswith(read(fs[value].content), Signature)
              THEN TraitError
              ELSE value
    ELSE value

\* the value _validate_database_filepath returns, or TraitError
_validate_database_filepath(value, fs) ==
    IF value = Memory
    THEN value
    ELSE IF fs[value].kind # "absent"
    THEN IF fs[value].kind = "dir"
         THEN TraitError
         ELSE LET header == read(fs[value].content)
              IN  IF ~startswith(header, Signature) /\ ~(header = <<>>)
                  THEN TraitError
                  ELSE value
    ELSE value

\* no assignment to database_filepath yet
NoAssign == [value |-> None, before |-> None, status |-> "none"]

\* ------------------------------------------------------------- SessionRecord
\* values of the fields session_id and kernel_id: None or a str, "" included
RecordSessionIds == {None, ""} \cup SessionIds

RecordKernelIds == {None, ""} \cup KernelIds

\* values of the field recorded: None or a bool
RecordedValues == {None, "True", "False"}

\* the objects compared: SessionRecord instances, and objects of another
\* class that have the same attributes
Objects(classes) ==
    [class : classes, session_id : RecordSessionIds, kernel_id : RecordKernelIds,
     recorded : RecordedValues]

SessionRecords == Objects({"SessionRecord"})

\* the truth value Python gives None and a str in a condition
Truthy(x) == x # None /\ x # ""

\* mutant: the records must also agree on recorded
SessionRecord_eq_recorded(self, other) ==
    IF other.class = "SessionRecord"
    THEN /\ \/ /\ Truthy(self.session_id) /\ Truthy(other.session_id)
               /\ self.session_id = other.session_id
            \/ /\ Truthy(self.kernel_id) /\ Truthy(other.kernel_id)
               /\ self.kernel_id = other.kernel_id
         /\ self.recorded = other.recorded
    ELSE FALSE

\* SessionRecord.__eq__(self, other)
SessionRecord_eq(self, other) ==
    IF other.class = "SessionRecord"
    THEN \/ /\ Truthy(self.session_id) /\ Truthy(other.session_id)
            /\ self.session_id = other.session_id
         \/ /\ Truthy(self.kernel_id) /\ Truthy(other.kernel_id)
            /\ self.kernel_id = other.kernel_id
    ELSE FALSE

\* ------------------------------------------------------------- store
\* mutant: the conditions are joined with OR
Matches_any(row, kwargs) == \E c \in DOMAIN kwargs : row[c] = kwargs[c]

\* WHERE col=? AND ...: the row agrees with every keyword given
Matches(row, kwargs) == \A c \in DOMAIN kwargs : row[c] = kwargs[c]

\* cursor.execute("SELECT * FROM session WHERE ..."); cursor.fetchone()
fetchone(rs, kwargs) ==
    LET hits == SelectSeq(rs, LAMBDA r : Matches(r, kwargs))
    IN  IF hits = <<>> THEN NoRow ELSE Head(hits)

\* cursor.execute("DELETE FROM session WHERE session_id=?")
delete_row(rs, sid) == SelectSeq(rs, LAMBDA r : r.session_id # sid)

\* cursor.execute("INSERT INTO session VALUES (?,?,?,?,?)")
insert_row(rs, row) == Append(rs, row)

Changed(row, kwargs, c) == IF c \in DOMAIN kwargs THEN kwargs[c] ELSE row[c]

\* cursor.execute("UPDATE session SET ... WHERE session_id=?")
update_rows(rs, sid, kwargs) ==
    [i \in DOMAIN rs |->
        IF rs[i].session_id = sid
        THEN Row(Changed(rs[i], kwargs, "session_id"), Changed(rs[i], kwargs, "path"),
                 Changed(rs[i], kwargs, "name"), Changed(rs[i], kwargs, "type"),
                 Changed(rs[i], kwargs, "kernel_id"))
        ELSE rs[i]]

\* ------------------------------------------------------------- kernel manager
\* kernel_id not in self.kernel_manager
kernel_culled(kernel_id, live) == kernel_id \notin live

\* kernel_manager.kernel_model(kernel_id)
kernel_model(kernel_id) == [id |-> kernel_id, execution_state |-> "idle"]

\* contents_manager.get_kernel_path(path=path): the working directory the
\* contents manager resolves for a session path, one per path
get_kernel_path(path) == "cwd of " \o path

\* mutant: the notebook entry is added whatever the type of the session
Model_notebook_always(row, km) ==
    [id |-> row.session_id, path |-> row.path, name |-> row.name, type |-> row.type,
     kernel |-> km,
     notebook |-> <<[path |-> row.path, name |-> row.name]>>]

\* the dictionary row_to_model returns
Model(row, km) ==
    [id |-> row.session_id, path |-> row.path, name |-> row.name, type |-> row.type,
     kernel |-> km,
     notebook |-> IF row.type = "notebook"
                  THEN <<[path |-> row.path, name |-> row.name]>>
                  ELSE <<>>]

\* ------------------------------------------------------------- inputs
ColumnValues(c) ==
    CASE c = "session_id" -> SessionIds
      [] c = "path" -> Paths
      [] c = "name" -> Names
      [] c = "type" -> Types
      [] c = "kernel_id" -> KernelIds
      [] OTHER -> {"v"}

AllValues == UNION {ColumnValues(c) : c \in Keys}

\* the **kwargs a caller may pass: at most MaxKeys keywords, bogus ones included
Kwargs ==
    UNION {{f \in [K -> AllValues] : \A c \in K : f[c] \in ColumnValues(c)} :
           K \in {S \in SUBSET Keys : Cardinality(S) <= MaxKeys}}

\* ------------------------------------------------------------- callers
\* a caller that runs no coroutine
Idle ==
    [op |-> "none", pc |-> "idle", sid |-> None, kwargs |-> <<>>,
     row |-> NoRow, snap |-> <<>>, i |-> 0, kid |-> None, kernel_path |-> None,
     status |-> "none", exists |-> FALSE, result |-> <<>>,
     rows0 |-> <<>>, culled |-> {}, shutdown |-> "none", visited |-> <<>>,
     selects |-> 0]

\* history: nothing to compare the next call with
NoHist == [op |-> "none", sid |-> None, kwargs |-> <<>>, status |-> "none",
           exists |-> FALSE, result |-> <<>>, culled |-> {}, rows |-> <<>>]

\* the call has executed one more SELECT
Selected(c) == [c EXCEPT !.selects = @ + 1]

\* the coroutine returns or raises: status is "ok" or the exception
Finish(c, status) == [c EXCEPT !.pc = "done", !.status = status]

Out(c, rs) == [call |-> c, rows |-> rs]

\* no coroutine is between its first and its last step
Quiet == \A p \in Procs : call[p].pc \in {"idle", "start_kernel", "shutdown_kernel"}

\* ------------------------------------------------------------- exceptions
\* raise TypeError(...): the spec's InvalidColumn
InvalidColumn == "TypeError"

\* raise web.HTTPError(404, ...): the spec's NotFound
NotFound == "HTTPError(404)"

\* whatever a kernel manager call raised, passed on to the caller
KernelError == "KernelError"

\* whatever contents_manager.get_kernel_path raised, passed on to the caller
ContentsError == "ContentsError"

\* ------------------------------------------------------------- coroutines
\* mutant: row_to_model reports a culled kernel without the DELETE
row_to_model_keep_row(c, rs, row, live) ==
    IF kernel_culled(row.kernel_id, live)
    THEN Out([c EXCEPT !.pc = "culled", !.row = row,
                       !.culled = @ \cup {row.session_id},
                       !.visited = Append(@, row)], rs)
    ELSE Out([c EXCEPT !.pc = "kernel_model", !.row = row,
                       !.visited = Append(@, row)], rs)

\* mutant: row_to_model without the kernel_culled check, every row waits
\* for kernel_model
row_to_model_unchecked(c, rs, row, live) ==
    Out([c EXCEPT !.pc = "kernel_model", !.row = row,
                  !.visited = Append(@, row)], rs)

\* row_to_model up to its await of kernel_model: the row of a kernel that is
\* gone is deleted (pc "culled": None or KeyError for the caller), the row of
\* a kernel that is there waits for kernel_model
row_to_model(c, rs, row, live) ==
    IF kernel_culled(row.kernel_id, live)
    THEN Out([c EXCEPT !.pc = "culled", !.row = row,
                       !.culled = @ \cup {row.session_id},
                       !.visited = Append(@, row)],
             delete_row(rs, row.session_id))
    ELSE Out([c EXCEPT !.pc = "kernel_model", !.row = row,
                       !.visited = Append(@, row)], rs)

\* mutant: session_exists reconciles with tolerate_culled=False
session_exists_query_strict(c, path, rs, live) ==
    LET row == fetchone(rs, [path |-> path])
    IN  IF row = NoRow
        THEN Out([Finish(Selected(c), "ok") EXCEPT !.exists = FALSE], rs)
        ELSE LET o == row_to_model(Selected(c), rs, row, live)
             IN  IF o.call.pc = "culled"
                 THEN Out(Finish(o.call, NotFound), o.rows)
                 ELSE o

\* session_exists up to the await in row_to_model(row, tolerate_culled=True)
session_exists_query(c, path, rs, live) ==
    LET row == fetchone(rs, [path |-> path])
    IN  IF row = NoRow
        THEN Out([Finish(Selected(c), "ok") EXCEPT !.exists = FALSE], rs)
        ELSE LET o == row_to_model(Selected(c), rs, row, live)
             IN  IF o.call.pc = "culled"
                 THEN Out([Finish(o.call, "ok") EXCEPT !.exists = FALSE], o.rows)
                 ELSE o

\* mutant: the keywords are checked after the query and the reconciliation
\* of the row the whitelisted keywords select
get_session_query_check_last(c, kwargs, rs, live) ==
    LET good == [k \in DOMAIN kwargs \cap Columns |-> kwargs[k]]
        row == fetchone(rs, good)
    IN  IF row = NoRow
        THEN IF DOMAIN kwargs = {} \/ \E column \in DOMAIN kwargs : column \notin Columns
             THEN Out(Finish(Selected(c), InvalidColumn), rs)
             ELSE Out(Finish(Selected(c), NotFound), rs)
        ELSE LET o == row_to_model(Selected(c), rs, row, live)
             IN  IF DOMAIN kwargs = {} \/ \E column \in DOMAIN kwargs : column \notin Columns
                 THEN Out(Finish(o.call, InvalidColumn), o.rows)
                 ELSE IF o.call.pc = "culled"
                 THEN Out(Finish(o.call, NotFound), o.rows)
                 ELSE o

\* mutant: after a 404 of row_to_model the query is made once more and the
\* row it returns then is reconciled
get_session_query_retry(c, kwargs, rs, live) ==
    IF DOMAIN kwargs = {}
    THEN Out(Finish(c, InvalidColumn), rs)
    ELSE IF \E column \in DOMAIN kwargs : column \notin Columns
    THEN Out(Finish(c, InvalidColumn), rs)
    ELSE LET row == fetchone(rs, kwargs)
         IN  IF row = NoRow
             THEN Out(Finish(Selected(c), NotFound), rs)
             ELSE LET o == row_to_model(Selected(c), rs, row, live)
                      again == fetchone(o.rows, kwargs)
                  IN  IF o.call.pc # "culled"
                      THEN o
                      ELSE IF again = NoRow
                      THEN Out(Finish(Selected(o.call), NotFound), o.rows)
                      ELSE LET o2 == row_to_model(Selected(o.call), o.rows, again, live)
                           IN  IF o2.call.pc = "culled"
                               THEN Out(Finish(o2.call, NotFound), o2.rows)
                               ELSE o2

\* get_session up to the await in row_to_model(row)
get_session_query(c, kwargs, rs, live) ==
    IF DOMAIN kwargs = {}
    THEN Out(Finish(c, InvalidColumn), rs)
    ELSE IF \E column \in DOMAIN kwargs : column \notin Columns
    THEN Out(Finish(c, InvalidColumn), rs)
    ELSE LET row == fetchone(rs, kwargs)
         IN  IF row = NoRow
             THEN Out(Finish(Selected(c), NotFound), rs)
             ELSE LET o == row_to_model(Selected(c), rs, row, live)
                  IN  IF o.call.pc = "culled"
                      THEN Out(Finish(o.call, NotFound), o.rows)
                      ELSE o

\* mutant: the INSERT binds path and name in the wrong order
save_session_swapped(c, session_id, path, name, type, kernel_id, rs, live) ==
    get_session_query(c, [session_id |-> session_id],
                      insert_row(rs, Row(session_id, name, path, type, kernel_id)), live)

\* save_session: the INSERT, then get_session(session_id=session_id)
save_session(c, session_id, path, name, type, kernel_id, rs, live) ==
    get_session_query(c, [session_id |-> session_id],
                      insert_row(rs, Row(session_id, path, name, type, kernel_id)), live)

\* mutant: the whitelisted columns are written before a bad keyword is refused
update_session_apply_partial(c, rs) ==
    LET good == [k \in DOMAIN c.kwargs \cap Columns |-> c.kwargs[k]]
    IN  IF DOMAIN c.kwargs = {}
        THEN Out(Finish(c, "ok"), rs)
        ELSE IF \E column \in DOMAIN c.kwargs : column \notin Columns
        THEN Out(Finish(c, InvalidColumn), update_rows(rs, c.sid, good))
        ELSE Out(Finish(c, "ok"), update_rows(rs, c.sid, c.kwargs))

\* mutant: no early return, the UPDATE is built from no keyword and sqlite
\* refuses the statement
update_session_apply_no_return(c, rs) ==
    IF DOMAIN c.kwargs = {}
    THEN Out(Finish(c, "OperationalError"), rs)
    ELSE IF \E column \in DOMAIN c.kwargs : column \notin Columns
    THEN Out(Finish(c, InvalidColumn), rs)
    ELSE Out(Finish(c, "ok"), update_rows(rs, c.sid, c.kwargs))

\* update_session once get_session has returned
update_session_apply(c, rs) ==
    IF DOMAIN c.kwargs = {}
    THEN Out(Finish(c, "ok"), rs)
    ELSE IF \E column \in DOMAIN c.kwargs : column \notin Columns
    THEN Out(Finish(c, InvalidColumn), rs)
    ELSE Out(Finish(c, "ok"), update_rows(rs, c.sid, c.kwargs))

RECURSIVE list_sessions_loop_live_cursor(_, _, _)
\* mutant: for row in c: the loop reads the table as it is now, so a row
\* deleted under the cursor moves the rows after it one place up
list_sessions_loop_live_cursor(c, rs, live) ==
    IF c.i > Len(rs)
    THEN Out(Finish(c, "ok"), rs)
    ELSE LET o == row_to_model(c, rs, rs[c.i], live)
         IN  IF o.call.pc = "culled"
             THEN list_sessions_loop_live_cursor([o.call EXCEPT !.i = @ + 1], o.rows, live)
             ELSE o

\* mutant: except KeyError: break, the pass ends at the first culled row
list_sessions_loop_break(c, rs, live) ==
    IF c.i > Len(c.snap)
    THEN Out(Finish(c, "ok"), rs)
    ELSE LET o == row_to_model(c, rs, c.snap[c.i], live)
         IN  IF o.call.pc = "culled"
             THEN Out(Finish(o.call, "ok"), o.rows)
             ELSE o

RECURSIVE list_sessions_loop(_, _, _)
\* for row in c.fetchall(): from snapshot row c.i on, up to the next await of
\* kernel_model or the return
list_sessions_loop(c, rs, live) ==
    IF c.i > Len(c.snap)
    THEN Out(Finish(c, "ok"), rs)
    ELSE LET o == row_to_model(c, rs, c.snap[c.i], live)
         IN  IF o.call.pc = "culled"
             THEN list_sessions_loop([o.call EXCEPT !.i = @ + 1], o.rows, live)
             ELSE o

\* mutant: result = [model]
list_sessions_append_overwrite(result, model) == <<model>>

\* result.append(model)
list_sessions_append(result, model) == Append(result, model)

\* mutant: the DELETE runs before shutdown_kernel is awaited
delete_session_found_delete_first(c, model, rs) ==
    Out([c EXCEPT !.pc = "shutdown_kernel", !.kid = model.kernel.id],
        delete_row(rs, c.sid))

\* delete_session once get_session has returned: it awaits
\* shutdown_kernel(session["kernel"]["id"]); the DELETE comes after that await
delete_session_found(c, model, rs) ==
    Out([c EXCEPT !.pc = "shutdown_kernel", !.kid = model.kernel.id], rs)

\* what the caller of row_to_model does with the model it returned
after_model(c, model, rs, live) ==
    CASE c.op = "session_exists" ->
            Out([Finish(c, "ok") EXCEPT !.exists = TRUE], rs)
      [] c.op \in {"get_session", "create_session"} ->
            Out([Finish(c, "ok") EXCEPT !.result = <<model>>], rs)
      [] c.op = "update_session" ->
            update_session_apply(c, rs)
      [] c.op = "list_sessions" ->
            list_sessions_loop([c EXCEPT !.result = list_sessions_append(@, model),
                                         !.i = @ + 1],
                               rs, live)
      [] c.op = "delete_session" ->
            delete_session_found(c, model, rs)

\* ------------------------------------------------------------- actions
\* a manager just constructed: its table is empty, no kernel runs
InitStore ==
    /\ rows = <<>>
    /\ alive = {}
    /\ nextSid = 1
    /\ nextKid = 1
    /\ call = [p \in Procs |-> Idle]
    /\ hist = NoHist
    /\ issued = {}
    /\ deleted = {}

\* the default configuration: the in-memory database
InitConfig ==
    /\ database_filepath = Memory
    /\ files = [path \in DbPaths |-> Absent]
    /\ assigned = NoAssign

\* nothing is compared
InitComparison ==
    /\ operands = <<>>
    /\ compared = "none"

\* _cursor = None, _connection = None: nothing is open
InitHandle ==
    /\ _cursor = None
    /\ _connection = None
    /\ opened = {}
    /\ oplog = <<>>

Init ==
    /\ InitStore
    /\ InitConfig
    /\ InitComparison
    /\ InitHandle

Start(op) == [Idle EXCEPT !.op = op, !.rows0 = rows]

session_exists(p) ==
    /\ call[p].pc = "idle"
    /\ \E path \in Paths :
         LET c == [Start("session_exists") EXCEPT !.kwargs = [path |-> path]]
             o == session_exists_query(c, path, rows, alive)
         IN  /\ call' = [call EXCEPT ![p] = o.call]
             /\ rows' = o.rows
    /\ UNCHANGED <<alive, nextSid, nextKid, hist, issued, deleted, aside>>

\* mutant: the kernel_id given is ignored, a kernel is started for every session
create_session_always_start(p) ==
    /\ call[p].pc = "idle"
    /\ nextSid <= MaxSessions
    /\ \E path \in Paths, name \in Names, type \in Types, kernel_id \in KernelIds \cup {None} :
         LET session_id == new_session_id(nextSid)
             c == [Start("create_session") EXCEPT
                      !.sid = session_id,
                      !.kwargs = [path |-> path, name |-> name, type |-> type,
                                  kernel_id |-> kernel_id]]
         IN  /\ nextKid <= MaxKernels
             /\ call' = [call EXCEPT ![p] =
                           [c EXCEPT !.pc = "start_kernel",
                                     !.kernel_path = get_kernel_path(path)]]
             /\ rows' = rows
    /\ nextSid' = nextSid + 1
    /\ UNCHANGED <<alive, nextKid, hist, issued, deleted, aside>>

\* create_session up to its first await: with a kernel_id that is in the
\* kernel manager it goes on to save_session, else it awaits start_kernel
\* with the directory of the path, unless get_kernel_path raises
create_session(p) ==
    /\ call[p].pc = "idle"
    /\ nextSid <= MaxSessions
    /\ \E path \in Paths, name \in Names, type \in Types, kernel_id \in KernelIds \cup {None} :
         LET session_id == new_session_id(nextSid)
             c == [Start("create_session") EXCEPT
                      !.sid = session_id,
                      !.kwargs = [path |-> path, name |-> name, type |-> type,
                                  kernel_id |-> kernel_id]]
         IN  IF kernel_id # None /\ kernel_id \in alive
             THEN LET o == save_session(c, session_id, path, name, type, kernel_id,
                                        rows, alive)
                  IN  /\ call' = [call EXCEPT ![p] = o.call]
                      /\ rows' = o.rows
             ELSE \E resolved \in BOOLEAN :
                    IF resolved
                    THEN /\ nextKid <= MaxKernels
                         /\ call' = [call EXCEPT ![p] =
                                       [c EXCEPT !.pc = "start_kernel",
                                                 !.kernel_path = get_kernel_path(path)]]
                         /\ rows' = rows
                    ELSE /\ call' = [call EXCEPT ![p] = Finish(c, ContentsError)]
                         /\ rows' = rows
    /\ nextSid' = nextSid + 1
    /\ UNCHANGED <<alive, nextKid, hist, issued, deleted, aside>>

\* mutant: the row is inserted before start_kernel is awaited and stays when
\* start_kernel raises
start_kernel_for_session_row_first(p) ==
    /\ call[p].pc = "start_kernel"
    /\ \E started \in BOOLEAN :
         IF started
         THEN LET c == call[p]
                  kernel_id == new_kernel_id(nextKid)
                  o == save_session(c, c.sid, c.kwargs.path, c.kwargs.name,
                                    c.kwargs.type, kernel_id, rows,
                                    alive \cup {kernel_id})
              IN  /\ alive' = alive \cup {kernel_id}
                  /\ nextKid' = nextKid + 1
                  /\ call' = [call EXCEPT ![p] = o.call]
                  /\ rows' = o.rows
         ELSE /\ call' = [call EXCEPT ![p] = Finish(call[p], KernelError)]
              /\ rows' = insert_row(rows, Row(call[p].sid, call[p].kwargs.path,
                                              call[p].kwargs.name, call[p].kwargs.type,
                                              None))
              /\ UNCHANGED <<alive, nextKid>>
    /\ UNCHANGED <<nextSid, hist, issued, deleted, aside>>

\* start_kernel_for_session: kernel_manager.start_kernel returns a new kernel id
\* or raises; create_session goes on to save_session
start_kernel_for_session(p) ==
    /\ call[p].pc = "start_kernel"
    /\ \E started \in BOOLEAN :
         IF started
         THEN LET c == call[p]
                  kernel_id == new_kernel_id(nextKid)
                  o == save_session(c, c.sid, c.kwargs.path, c.kwargs.name,
                                    c.kwargs.type, kernel_id, rows,
                                    alive \cup {kernel_id})
              IN  /\ alive' = alive \cup {kernel_id}
                  /\ nextKid' = nextKid + 1
                  /\ call' = [call EXCEPT ![p] = o.call]
                  /\ rows' = o.rows
         ELSE /\ call' = [call EXCEPT ![p] = Finish(call[p], KernelError)]
              /\ UNCHANGED <<alive, nextKid, rows>>
    /\ UNCHANGED <<nextSid, hist, issued, deleted, aside>>

get_session(p) ==
    /\ call[p].pc = "idle"
    /\ \E kwargs \in Kwargs :
         LET c == [Start("get_session") EXCEPT !.kwargs = kwargs]
             o == get_session_query(c, kwargs, rows, alive)
         IN  /\ call' = [call EXCEPT ![p] = o.call]
             /\ rows' = o.rows
    /\ UNCHANGED <<alive, nextSid, nextKid, hist, issued, deleted, aside>>

\* a caller knows the session ids generated so far
Generated == {new_session_id(n) : n \in 1..(nextSid - 1)}

\* mutant: the keywords are checked before get_session is awaited
update_session_validate_first(p) ==
    /\ call[p].pc = "idle"
    /\ \E session_id \in SessionIds, kwargs \in Kwargs :
         /\ "session_id" \in DOMAIN kwargs => kwargs["session_id"] \in Generated
         /\ LET c == [Start("update_session") EXCEPT !.sid = session_id,
                                                     !.kwargs = kwargs]
                o == IF \E column \in DOMAIN kwargs : column \notin Columns
                     THEN Out(Finish(c, InvalidColumn), rows)
                     ELSE get_session_query(c, [session_id |-> session_id], rows, alive)
            IN  /\ call' = [call EXCEPT ![p] = o.call]
                /\ rows' = o.rows
    /\ UNCHANGED <<alive, nextSid, nextKid, hist, issued, deleted, aside>>

update_session(p) ==
    /\ call[p].pc = "idle"
    /\ \E session_id \in SessionIds, kwargs \in Kwargs :
         /\ "session_id" \in DOMAIN kwargs => kwargs["session_id"] \in Generated
         /\ LET c == [Start("update_session") EXCEPT !.sid = session_id,
                                                     !.kwargs = kwargs]
                o == get_session_query(c, [session_id |-> session_id], rows, alive)
            IN  /\ call' = [call EXCEPT ![p] = o.call]
                /\ rows' = o.rows
    /\ UNCHANGED <<alive, nextSid, nextKid, hist, issued, deleted, aside>>

\* mutant: list_sessions is suspended between execute and fetchall, and
\* fetchall returns what the shared cursor holds by then: the result set of
\* the SELECT ... WHERE session_id=? of a call that started meanwhile
list_sessions_fetch_after_await(p) ==
    /\ call[p].pc = "idle"
    /\ LET others == {q \in Procs \ {p} :
                        /\ call[q].op \in {"update_session", "delete_session"}
                        /\ call[q].pc # "done"}
           fetched == IF others = {}
                      THEN rows
                      ELSE SelectSeq(rows, LAMBDA r :
                               r.session_id = call[CHOOSE q \in others : TRUE].sid)
           c == [Start("list_sessions") EXCEPT !.snap = fetched, !.i = 1, !.selects = 1]
           o == list_sessions_loop(c, rows, alive)
       IN  /\ call' = [call EXCEPT ![p] = o.call]
           /\ rows' = o.rows
    /\ UNCHANGED <<alive, nextSid, nextKid, hist, issued, deleted, aside>>

list_sessions(p) ==
    /\ call[p].pc = "idle"
    /\ LET c == [Start("list_sessions") EXCEPT !.snap = rows, !.i = 1, !.selects = 1]
           o == list_sessions_loop(c, rows, alive)
       IN  /\ call' = [call EXCEPT ![p] = o.call]
           /\ rows' = o.rows
    /\ UNCHANGED <<alive, nextSid, nextKid, hist, issued, deleted, aside>>

\* mutant: delete_session catches the 404 of a culled row and goes on to
\* shutdown_kernel with the kernel id of that row
delete_session_shutdown_culled(p) ==
    /\ call[p].pc = "idle"
    /\ \E session_id \in SessionIds :
         LET c == [Start("delete_session") EXCEPT !.sid = session_id]
             o == get_session_query(c, [session_id |-> session_id], rows, alive)
         IN  /\ call' = [call EXCEPT ![p] =
                           IF o.call.culled # {}
                           THEN [o.call EXCEPT !.pc = "shutdown_kernel",
                                               !.status = "none",
                                               !.kid = o.call.row.kernel_id]
                           ELSE o.call]
             /\ rows' = o.rows
    /\ UNCHANGED <<alive, nextSid, nextKid, hist, issued, deleted, aside>>

delete_session(p) ==
    /\ call[p].pc = "idle"
    /\ \E session_id \in SessionIds :
         LET c == [Start("delete_session") EXCEPT !.sid = session_id]
             o == get_session_query(c, [session_id |-> session_id], rows, alive)
         IN  /\ call' = [call EXCEPT ![p] = o.call]
             /\ rows' = o.rows
    /\ UNCHANGED <<alive, nextSid, nextKid, hist, issued, deleted, aside>>

\* row_to_model from its await of kernel_manager.kernel_model on, and its
\* caller up to the caller's next await or its return. kernel_model was
\* called when the kernel was in the kernel manager; for a kernel that went
\* away during the await it answers with the model it had prepared or raises
row_to_model_model(p) ==
    /\ call[p].pc = "kernel_model"
    /\ \E answered \in BOOLEAN :
         /\ ~answered => call[p].row.kernel_id \notin alive
         /\ LET c == call[p]
                o == IF answered
                     THEN after_model(c, Model(c.row, kernel_model(c.row.kernel_id)),
                                      rows, alive)
                     ELSE Out(Finish(c, KernelError), rows)
            IN  /\ call' = [call EXCEPT ![p] = o.call]
                /\ rows' = o.rows
    /\ UNCHANGED <<alive, nextSid, nextKid, hist, issued, deleted, aside>>

\* mutant: the DELETE runs whether shutdown_kernel returned or raised
delete_session_shutdown_finally(p) ==
    /\ call[p].pc = "shutdown_kernel"
    /\ \E stopped \in BOOLEAN :
         /\ stopped => call[p].kid \in alive
         /\ rows' = delete_row(rows, call[p].sid)
         /\ IF stopped
            THEN /\ alive' = alive \ {call[p].kid}
                 /\ call' = [call EXCEPT ![p] =
                                [Finish(call[p], "ok") EXCEPT !.shutdown = "ok"]]
            ELSE /\ call' = [call EXCEPT ![p] =
                                [Finish(call[p], KernelError) EXCEPT !.shutdown = "failed"]]
                 /\ UNCHANGED alive
    /\ UNCHANGED <<nextSid, nextKid, hist, issued, deleted, aside>>

\* delete_session from its await of kernel_manager.shutdown_kernel on: the
\* DELETE runs only when shutdown_kernel returned
delete_session_shutdown(p) ==
    /\ call[p].pc = "shutdown_kernel"
    /\ \E stopped \in BOOLEAN :
         /\ stopped => call[p].kid \in alive
         /\ IF stopped
            THEN /\ alive' = alive \ {call[p].kid}
                 /\ rows' = delete_row(rows, call[p].sid)
                 /\ call' = [call EXCEPT ![p] =
                                [Finish(call[p], "ok") EXCEPT !.shutdown = "ok"]]
            ELSE /\ call' = [call EXCEPT ![p] =
                                [Finish(call[p], KernelError) EXCEPT !.shutdown = "failed"]]
                 /\ UNCHANGED <<alive, rows>>
    /\ UNCHANGED <<nextSid, nextKid, hist, issued, deleted, aside>>

\* what the history keeps of a completed call: a call that culled, created
\* or failed to shut a kernel down, for the next call to be compared with
Summary(c) ==
    IF \/ c.op \in {"session_exists", "list_sessions"} /\ c.culled # {}
       \/ c.op = "create_session" /\ c.status = "ok"
       \/ c.op = "delete_session" /\ c.shutdown = "failed"
    THEN [op |-> c.op, sid |-> c.sid, kwargs |-> c.kwargs, status |-> c.status,
          exists |-> c.exists, result |-> c.result, culled |-> c.culled,
          rows |-> rows]
    ELSE NoHist

\* the caller takes the result (or the exception) of its call
Return(p) ==
    /\ call[p].pc = "done"
    /\ call' = [call EXCEPT ![p] = Idle]
    /\ hist' = Summary(call[p])
    /\ issued' = IF call[p].op = "create_session" /\ call[p].status = "ok"
                 THEN issued \cup {call[p].result[1].id}
                 ELSE issued
    /\ deleted' = IF call[p].op = "delete_session" /\ call[p].status = "ok"
                  THEN deleted \cup {call[p].sid}
                  ELSE deleted
    /\ UNCHANGED <<rows, alive, nextSid, nextKid, aside>>

\* a kernel dies or is culled by the kernel manager, no session being deleted
KillKernel(k) ==
    /\ k \in alive
    /\ alive' = alive \ {k}
    /\ hist' = NoHist
    /\ UNCHANGED <<rows, nextSid, nextKid, call, issued, deleted, aside>>

Step(p) ==
    \/ session_exists(p)
    \/ create_session(p)
    \/ start_kernel_for_session(p)
    \/ get_session(p)
    \/ update_session(p)
    \/ list_sessions(p)
    \/ delete_session(p)
    \/ row_to_model_model(p)
    \/ delete_session_shutdown(p)
    \/ Return(p)

\* one caller, its calls one after the other; kernels die between calls and
\* while a call waits for start_kernel or shutdown_kernel
Next ==
    \/ Step(1)
    \/ \E k \in KernelIds : Quiet /\ KillKernel(k)

Spec == Init /\ [][Next]_vars

\* the tables Spec reaches with MaxSessions sessions created on one path:
\* session ids in the order of creation, or one id on both rows after an
\* update_session, each row bound to any kernel
LiveStores ==
    LET stored(n, k) == Row(new_session_id(n), "/a.ipynb", "a", "notebook", k)
        ordered == {mn \in (1..MaxSessions) \X (1..MaxSessions) : mn[1] <= mn[2]}
    IN  {<<>>}
        \cup {<<stored(n, k)>> : n \in 1..MaxSessions, k \in KernelIds}
        \cup {<<stored(mn[1], ks[1]), stored(mn[2], ks[2])>> :
                 mn \in ordered, ks \in KernelIds \X KernelIds}

\* every session created and every kernel started; any of the kernels gone
InitLive ==
    /\ rows \in LiveStores
    /\ alive \in SUBSET KernelIds
    /\ nextSid = MaxSessions + 1
    /\ nextKid = MaxKernels + 1
    /\ call = [p \in Procs |-> Idle]
    /\ hist = NoHist
    /\ issued = SessionIds
    /\ deleted = {}
    /\ InitConfig
    /\ InitComparison
    /\ InitHandle

\* the caller lists and deletes sessions while kernels die
NextLive ==
    \/ list_sessions(1)
    \/ delete_session(1)
    \/ row_to_model_model(1)
    \/ delete_session_shutdown(1)
    \/ Return(1)
    \/ \E k \in KernelIds : Quiet /\ KillKernel(k)

\* a caller that keeps calling list_sessions, an event loop that resumes
\* every coroutine that can go on, and a kernel manager that answers every
\* shutdown_kernel (normally or with an exception)
SpecLive ==
    /\ InitLive
    /\ [][NextLive]_vars
    /\ SF_vars(list_sessions(1))
    /\ WF_vars(row_to_model_model(1))
    /\ WF_vars(delete_session_shutdown(1))
    /\ WF_vars(Return(1))

\* update_session called with one keyword, a column of the table
update_session_column(p) ==
    /\ update_session(p)
    /\ Cardinality(DOMAIN call'[p].kwargs) = 1
    /\ DOMAIN call'[p].kwargs \subseteq Columns

\* get_session called with one keyword, a column of the table
get_session_column(p) ==
    /\ get_session(p)
    /\ Cardinality(DOMAIN call'[p].kwargs) = 1
    /\ DOMAIN call'[p].kwargs \subseteq Columns

\* one request handler: it makes one call and awaits its result
Request(p) ==
    \/ session_exists(p)
    \/ get_session_column(p)
    \/ list_sessions(p)
    \/ update_session_column(p)
    \/ delete_session(p)
    \/ row_to_model_model(p)
    \/ delete_session_shutdown(p)

\* the event loop runs the handlers of concurrent requests, each up to its
\* next await; kernels die at any time
NextConc ==
    \/ \E p \in Procs : Request(p)
    \/ \E k \in KernelIds : KillKernel(k)

\* NumProcs requests at once on a table written earlier
SpecConc == InitLive /\ [][NextConc]_vars

\* one caller creates sessions one after the other; kernels die at any
\* time, also while create_session awaits the kernel manager
NextCreate ==
    \/ create_session(1)
    \/ start_kernel_for_session(1)
    \/ row_to_model_model(1)
    \/ Return(1)
    \/ \E k \in KernelIds : KillKernel(k)

SpecCreate == Init /\ [][NextCreate]_vars

\* ------------------------------------------------------------- configuration
\* database_filepath, its default, with anything at the paths it may name
InitValidate ==
    /\ InitStore
    /\ database_filepath = Memory
    /\ files \in [DbPaths -> FileStates]
    /\ assigned = NoAssign
    /\ InitComparison
    /\ InitHandle

\* manager.database_filepath = value: the trait takes the value the
\* validator returns and keeps its value when the validator raises
set_database_filepath ==
    /\ \E value \in {Memory} \cup DbPaths :
         LET v == _validate_database_filepath(value, files)
         IN  /\ assigned' = [value |-> value, before |-> database_filepath,
                             status |-> IF v = TraitError THEN TraitError ELSE "ok"]
             /\ database_filepath' = IF v = TraitError THEN database_filepath ELSE v
    /\ UNCHANGED <<files, store, comparison, handle>>

NextValidate == set_database_filepath

\* assignments to database_filepath, whatever the file system holds
SpecValidate == InitValidate /\ [][NextValidate]_vars

\* ------------------------------------------------------------- SessionRecord
\* a SessionRecord and any object to compare it with
InitRecord ==
    /\ InitStore
    /\ InitConfig
    /\ operands \in SessionRecords \X Objects({"SessionRecord", "dict"})
    /\ compared = "none"
    /\ InitHandle

\* operands[1] == operands[2]
compare ==
    /\ compared = "none"
    /\ compared' = IF SessionRecord_eq(operands[1], operands[2]) THEN "True" ELSE "False"
    /\ UNCHANGED <<operands, store, config, handle>>

NextRecord == compare

\* comparisons of a SessionRecord with an object
SpecRecord == InitRecord /\ [][NextRecord]_vars

\* three SessionRecords a, b, c
InitChain ==
    /\ InitStore
    /\ InitConfig
    /\ operands \in SessionRecords \X SessionRecords \X SessionRecords
    /\ compared = "none"
    /\ InitHandle

\* str(x == y)[0]
Initial(self, other) == IF SessionRecord_eq(self, other) THEN "T" ELSE "F"

\* a == b, b == c, a == c: compared holds the three results in this order
compare_chain ==
    /\ compared = "none"
    /\ compared' = Initial(operands[1], operands[2])
                      \o Initial(operands[2], operands[3])
                      \o Initial(operands[1], operands[3])
    /\ UNCHANGED <<operands, store, config, handle>>

NextChain == compare_chain

\* chains of comparisons of SessionRecords
SpecChain == InitChain /\ [][NextChain]_vars

\* ------------------------------------------------------------- storage handle
\* the n-th object sqlite3 hands out
sqlite_connection(n) == "connection" \o ToString(n)

sqlite_cursor(n) == "cursor" \o ToString(n)

\* the connection property: sqlite3.connect on first use, the same
\* connection afterwards
connection == IF _connection = None THEN sqlite_connection(Len(oplog) + 1) ELSE _connection

\* a storage access, self.cursor.execute(...): the cursor property makes a
\* cursor of the connection and executes CREATE TABLE IF NOT EXISTS when
\* _cursor is None, and returns _cursor
cursor ==
    /\ Len(oplog) < MaxOps
    /\ IF _cursor = None
       THEN /\ _connection' = connection
            /\ _cursor' = sqlite_cursor(Len(oplog) + 1)
            /\ opened' = opened \cup {connection, sqlite_cursor(Len(oplog) + 1)}
       ELSE UNCHANGED <<_cursor, _connection, opened>>
    /\ oplog' = Append(oplog, "cursor")
    /\ UNCHANGED <<store, config, comparison>>

\* close(), also called by __del__: the cursor is closed and forgotten
close ==
    /\ Len(oplog) < MaxOps
    /\ IF _cursor # None
       THEN /\ opened' = opened \ {_cursor}
            /\ _cursor' = None
       ELSE UNCHANGED <<_cursor, opened>>
    /\ oplog' = Append(oplog, "close")
    /\ UNCHANGED <<_connection, store, config, comparison>>

NextHandle == cursor \/ close

\* storage accesses and close() calls on a manager just constructed
SpecHandle == Init /\ [][NextHandle]_vars

\* ------------------------------------------------------------- claims
\* caller p's call of coroutine op has returned or raised
Done(p, op) == call[p].pc = "done" /\ call[p].op = op

\* the rows of rs whose kernel is in the kernel manager now
LiveRows(rs) == SelectSeq(rs, LAMBDA r : r.kernel_id \in alive)

\* the rows of rs that have session id sid
RowsOf(rs, sid) == SelectSeq(rs, LAMBDA r : r.session_id = sid)

\* C1: a list_sessions call that nothing interleaved with returns normally
\* one model per row that was stored when it was called and whose kernel is
\* alive, in storage order, each with the id, the path and the kernel id of
\* its row, and no model for a row whose kernel is dead.
C1_ListReturnsLiveRows ==
    \A p \in Procs : Done(p, "list_sessions") =>
        LET c == call[p]
            live == LiveRows(c.rows0)
        IN  /\ c.status = "ok"
            /\ Len(c.result) = Len(live)
            /\ \A i \in 1..Len(live) :
                 /\ c.result[i].id = live[i].session_id
                 /\ c.result[i].path = live[i].path
                 /\ c.result[i].kernel.id = live[i].kernel_id

\* C1 witness: sessions on /a.ipynb and /b.ipynb bound to k1 and k2, k1 killed;
\* list_sessions returned exactly one entry, for /b.ipynb, with kernel.id k2.
C1_Witness ==
    \E p \in Procs :
        /\ Done(p, "list_sessions")
        /\ Len(call[p].rows0) = 2
        /\ call[p].rows0[1].path = "/a.ipynb" /\ call[p].rows0[1].kernel_id = "k1"
        /\ call[p].rows0[2].path = "/b.ipynb" /\ call[p].rows0[2].kernel_id = "k2"
        /\ alive = {"k2"}
        /\ Len(call[p].result) = 1
        /\ call[p].result[1].path = "/b.ipynb"
        /\ call[p].result[1].kernel.id = "k2"

C4_CullingIdempotent ==
    \A p \in Procs :
        (/\ call[p].pc = "done"
         /\ call[p].op \in {"session_exists", "list_sessions"}
         /\ hist.op = call[p].op
         /\ hist.kwargs = call[p].kwargs
         /\ hist.culled # {}) =>
            /\ call[p].status = hist.status
            /\ call[p].exists = hist.exists
            /\ call[p].result = hist.result
            /\ rows = hist.rows

\* C5: the id of every model create_session returns differs from the id of
\* every model an earlier create_session call returned, also when that
\* earlier session has since been deleted or culled.
C5_CreatedIdIsFresh ==
    \A p \in Procs : (Done(p, "create_session") /\ call[p].status = "ok") =>
        /\ Len(call[p].result) = 1
        /\ call[p].result[1].id \notin issued

\* C5 witness: create_session returned while an id it returned earlier
\* belongs to no stored row any more.
C5_Witness ==
    \E p \in Procs :
        /\ Done(p, "create_session")
        /\ call[p].status = "ok"
        /\ \E id \in issued : RowsOf(rows, id) = <<>>

\* C6: create_session returned a model with id X and the very next thing is
\* get_session(session_id=X): it returns a model with id X and the path, name
\* and type given to create_session, whose kernel.id is the kernel_id of X's
\* row, a kernel the kernel manager holds.
C6_GetAfterCreate ==
    \A p \in Procs :
        (/\ Done(p, "get_session")
         /\ hist.op = "create_session"
         /\ hist.status = "ok"
         /\ call[p].kwargs = [session_id |-> hist.result[1].id]) =>
            LET X == hist.result[1].id
                row == fetchone(rows, [session_id |-> X])
            IN  /\ call[p].status = "ok"
                /\ Len(call[p].result) = 1
                /\ call[p].result[1].id = X
                /\ call[p].result[1].path = hist.kwargs.path
                /\ call[p].result[1].name = hist.kwargs.name
                /\ call[p].result[1].type = hist.kwargs.type
                /\ call[p].result[1].kernel.id = row.kernel_id
                /\ row.kernel_id \in alive

\* C6 witness: get_session(session_id=X) returned right after the
\* create_session call that returned X, a second session being stored.
C6_Witness ==
    \E p \in Procs :
        /\ Done(p, "get_session")
        /\ hist.op = "create_session"
        /\ hist.status = "ok"
        /\ call[p].kwargs = [session_id |-> hist.result[1].id]
        /\ call[p].status = "ok"
        /\ Len(rows) = 2

\* C7: update_session for a stored session whose kernel is alive, with a
\* keyword outside _columns among its changes, raises TypeError and leaves
\* every row as it was, whatever other keywords it was given.
C7_BogusUpdateChangesNothing ==
    \A p \in Procs : Done(p, "update_session") =>
        LET c == call[p]
            X == fetchone(c.rows0, [session_id |-> c.sid])
        IN  (/\ X # NoRow
             /\ X.kernel_id \in alive
             /\ \E k \in DOMAIN c.kwargs : k \notin Columns) =>
                /\ c.status = InvalidColumn
                /\ rows = c.rows0

\* C7 witness: such an update_session was refused although it also named a
\* column with a value other than the stored one.
C7_Witness ==
    \E p \in Procs :
        /\ Done(p, "update_session")
        /\ call[p].status = InvalidColumn
        /\ LET c == call[p]
               X == fetchone(c.rows0, [session_id |-> c.sid])
           IN  /\ X # NoRow
               /\ \E k \in DOMAIN c.kwargs : k \in Columns /\ c.kwargs[k] # X[k]

\* C8 as claimed: delete_session never removes a row of its session id
\* before or without shutdown_kernel having returned normally.
C8_DeleteOnlyAfterShutdown ==
    \A p \in Procs : call[p].op = "delete_session" =>
        /\ call[p].pc = "shutdown_kernel" => rows = call[p].rows0
        /\ (call[p].pc = "done" /\ rows # call[p].rows0) => call[p].shutdown = "ok"

\* C8 amended: delete_session(id) removes rows in two ways only. When the
\* kernel of the row found for id is alive, it awaits shutdown_kernel for
\* that kernel with every row still stored, and deletes the rows with id once
\* shutdown_kernel has returned normally. When that kernel is dead, the row
\* is culled, shutdown_kernel is not called and the call raises 404.
C8_DeleteAfterShutdownOrCull ==
    \A p \in Procs : call[p].op = "delete_session" =>
        LET c == call[p]
            X == fetchone(c.rows0, [session_id |-> c.sid])
            rest == SelectSeq(c.rows0, LAMBDA r : r.session_id # c.sid)
        IN  /\ c.pc = "shutdown_kernel" =>
                /\ rows = c.rows0
                /\ X # NoRow
                /\ c.kid = X.kernel_id
            /\ (c.pc = "done" /\ rows # c.rows0) =>
                /\ X # NoRow
                /\ rows = rest
                /\ \/ /\ c.shutdown = "ok"
                      /\ c.status = "ok"
                      /\ c.kid = X.kernel_id
                      /\ c.kid \notin alive
                   \/ /\ c.shutdown = "none"
                      /\ c.status = NotFound
                      /\ X.kernel_id \notin alive

\* C8 witness: delete_session returned normally after shutdown_kernel, the
\* row of its session removed and another session still stored.
C8_Witness ==
    \E p \in Procs :
        /\ Done(p, "delete_session")
        /\ call[p].shutdown = "ok"
        /\ Len(call[p].rows0) = 2
        /\ Len(rows) = 1

C10_ShutdownFailureKeepsRow ==
    \A p \in Procs : (Done(p, "delete_session") /\ call[p].shutdown = "failed") =>
        /\ call[p].status = KernelError
        /\ rows = call[p].rows0
        /\ RowsOf(rows, call[p].sid) # <<>>

\* C10 witness: delete_session(id) failed in shutdown_kernel right after an
\* earlier delete_session(id) that failed the same way, the kernel alive.
C10_Witness ==
    \E p \in Procs :
        /\ Done(p, "delete_session")
        /\ call[p].shutdown = "failed"
        /\ hist.op = "delete_session"
        /\ hist.sid = call[p].sid
        /\ hist.status = KernelError
        /\ call[p].kid \in alive

\* the selector names columns only, and at least one
ValidSelector(kwargs) == DOMAIN kwargs # {} /\ DOMAIN kwargs \subseteq Columns

\* C11: get_session with a selector of whitelisted columns that no stored
\* row agrees with on every key raises 404 and leaves every row as it was.
C11_GetNoMatchNotFound ==
    \A p \in Procs : Done(p, "get_session") =>
        LET c == call[p]
        IN  (/\ ValidSelector(c.kwargs)
             /\ \A i \in 1..Len(c.rows0) :
                  \E k \in DOMAIN c.kwargs : c.rows0[i][k] # c.kwargs[k]) =>
                /\ c.status = NotFound
                /\ rows = c.rows0

\* C11 witness: get_session with two keys raised 404 although each key alone
\* is the value of some stored row, no row having both.
C11_Witness ==
    \E p \in Procs :
        /\ Done(p, "get_session")
        /\ call[p].status = NotFound
        /\ rows = call[p].rows0
        /\ LET c == call[p]
           IN  /\ ValidSelector(c.kwargs)
               /\ Cardinality(DOMAIN c.kwargs) = 2
               /\ \A k \in DOMAIN c.kwargs :
                    \E i \in 1..Len(c.rows0) : c.rows0[i][k] = c.kwargs[k]
               /\ \A i \in 1..Len(c.rows0) :
                    \E k \in DOMAIN c.kwargs : c.rows0[i][k] # c.kwargs[k]

\* the rows of rs but the i-th
RemoveAt(rs, i) == SubSeq(rs, 1, i - 1) \o SubSeq(rs, i + 1, Len(rs))

\* the rowid order position of the first row of rs that agrees with kwargs
FirstIndex(rs, kwargs) ==
    CHOOSE i \in 1..Len(rs) :
        /\ \A k \in DOMAIN kwargs : rs[i][k] = kwargs[k]
        /\ \A j \in 1..(i - 1) : \E k \in DOMAIN kwargs : rs[j][k] # kwargs[k]

C13_ExistsOnlyIfReconciled ==
    \A p \in Procs : Done(p, "session_exists") =>
        LET c == call[p]
            path == c.kwargs.path
            X == fetchone(c.rows0, [path |-> path])
        IN  /\ c.status # NotFound
            /\ c.exists = TRUE =>
                 /\ X # NoRow
                 /\ c.row = X
                 /\ X.kernel_id \in alive
                 /\ \E i \in 1..Len(rows) : rows[i] = X
                 /\ c.culled = {}
            /\ (\A i \in 1..Len(c.rows0) : c.rows0[i].path # path) =>
                 /\ c.status = "ok"
                 /\ c.exists = FALSE
                 /\ rows = c.rows0
            /\ (X # NoRow /\ X.kernel_id \notin alive) =>
                 /\ c.status = "ok"
                 /\ c.exists = FALSE
                 /\ \A i \in 1..Len(rows) : rows[i] # X
                 /\ c.culled = {X.session_id}

\* C13 witness: session_exists returned False for a path whose row had lost
\* its kernel and removed that row, the session of another path staying
\* stored.
C13_Witness ==
    \E p \in Procs :
        /\ Done(p, "session_exists")
        /\ call[p].status = "ok"
        /\ call[p].exists = FALSE
        /\ call[p].culled # {}
        /\ Len(call[p].rows0) = 2
        /\ Len(rows) = 1
        /\ rows[1].path # call[p].kwargs.path

\* C14: get_session with no keyword, or with a keyword outside _columns,
\* raises TypeError before it queries the table or looks at a kernel: every
\* row is as it was and none was culled, also when the other keywords select
\* a row whose kernel is gone.
C14_InvalidSelectorTouchesNothing ==
    \A p \in Procs : Done(p, "get_session") =>
        LET c == call[p]
        IN  (~ValidSelector(c.kwargs)) =>
                /\ c.status = InvalidColumn
                /\ rows = c.rows0
                /\ c.culled = {}
                /\ c.row = NoRow

\* C14 witness: get_session was refused for a keyword outside _columns while
\* its other keyword selects a stored row whose kernel is gone.
C14_Witness ==
    \E p \in Procs :
        /\ Done(p, "get_session")
        /\ call[p].status = InvalidColumn
        /\ LET c == call[p]
           IN  /\ Bogus \in DOMAIN c.kwargs
               /\ \E k \in DOMAIN c.kwargs \cap Columns, i \in 1..Len(rows) :
                    /\ rows[i][k] = c.kwargs[k]
                    /\ rows[i].kernel_id \notin alive

C16_EmptyUpdateIsNoOp ==
    \A p \in Procs : (Done(p, "update_session") /\ DOMAIN call[p].kwargs = {}) =>
        rows = call[p].rows0

\* C16 amended: update_session(session_id) with no keyword writes nothing of
\* its own. When the row of session_id is stored with its kernel alive it
\* returns and every row is as it was; when no row has session_id it raises
\* 404 and every row is as it was; when the kernel of session_id's row is
\* gone the existence check culls: the rows with session_id are deleted, all
\* other rows are as they were, and it raises 404.
C16_EmptyUpdateOnlyCulls ==
    \A p \in Procs : (Done(p, "update_session") /\ DOMAIN call[p].kwargs = {}) =>
        LET c == call[p]
            X == fetchone(c.rows0, [session_id |-> c.sid])
        IN  IF X = NoRow
            THEN c.status = NotFound /\ rows = c.rows0
            ELSE IF X.kernel_id \in alive
            THEN c.status = "ok" /\ rows = c.rows0
            ELSE /\ c.status = NotFound
                 /\ rows = SelectSeq(c.rows0, LAMBDA r : r.session_id # c.sid)

\* C16 witness: update_session with no keyword culled the row of its
\* session, whose kernel was gone, and left the row of another session.
C16_Witness ==
    \E p \in Procs :
        /\ Done(p, "update_session")
        /\ DOMAIN call[p].kwargs = {}
        /\ call[p].status = NotFound
        /\ Len(call[p].rows0) = 2
        /\ Len(rows) = 1
        /\ rows[1].session_id # call[p].sid

\* the row update_session(id, kwargs) makes of row: the named columns set to
\* the given values, the others kept
Updated(row, kwargs) == [k \in Columns |-> IF k \in DOMAIN kwargs THEN kwargs[k] ELSE row[k]]

C18_StartsKernelIffNeeded ==
    [][\A p \in Procs :
         /\ (call[p].pc = "idle" /\ call'[p].op = "create_session") =>
              LET c == call'[p]
                  given == c.kwargs.kernel_id
                  reuse == given # None /\ given \in alive
              IN  /\ (c.pc = "start_kernel" \/ c.status = ContentsError) <=> ~reuse
                  /\ c.pc = "start_kernel" =>
                       /\ c.kernel_path = get_kernel_path(c.kwargs.path)
                       /\ rows' = rows
                  /\ reuse =>
                       /\ c.kernel_path = None
                       /\ alive' = alive
                       /\ nextKid' = nextKid
                       /\ rows' = Append(rows, Row(c.sid, c.kwargs.path, c.kwargs.name,
                                                   c.kwargs.type, given))
         /\ (call[p].pc = "start_kernel" /\ call'[p].pc # "start_kernel") =>
              LET c == call'[p]
              IN  \/ /\ c.status = KernelError
                     /\ rows' = rows
                     /\ alive' = alive
                  \/ \E k \in alive' \ alive :
                        rows' = Append(rows, Row(c.sid, c.kwargs.path, c.kwargs.name,
                                                 c.kwargs.type, k))
      ]_vars

\* C18 witness: create_session was given a kernel_id the kernel manager lacks,
\* started a kernel in the directory of the path and returned a model whose
\* kernel is the started one.
C18_Witness ==
    \E p \in Procs :
        /\ Done(p, "create_session")
        /\ call[p].status = "ok"
        /\ call[p].kwargs.kernel_id # None
        /\ call[p].kernel_path = get_kernel_path(call[p].kwargs.path)
        /\ call[p].result[1].kernel.id # call[p].kwargs.kernel_id
        /\ rows[Len(rows)].kernel_id = call[p].result[1].kernel.id

ExpectedModel(row) ==
    [id |-> row.session_id, path |-> row.path, name |-> row.name, type |-> row.type,
     kernel |-> kernel_model(row.kernel_id),
     notebook |-> IF row.type = "notebook"
                  THEN <<[path |-> row.path, name |-> row.name]>>
                  ELSE <<>>]

\* C20: for a row whose kernel is alive row_to_model changes no row and
\* returns a model with the row's session id, path, name and type, whose
\* kernel is the kernel manager's model of the row's kernel_id, and with a
\* notebook entry {path, name} exactly when the row's type is "notebook":
\* that model is what get_session returns for the row it looked up, every
\* row being as it was, and what list_sessions returns for each row of a
\* live kernel.
C20_LiveRowGivesFullModel ==
    \A p \in Procs :
        /\ Done(p, "get_session") =>
             LET c == call[p]
                 X == fetchone(c.rows0, c.kwargs)
             IN  (ValidSelector(c.kwargs) /\ X # NoRow /\ X.kernel_id \in alive) =>
                     /\ c.status = "ok"
                     /\ c.result = <<ExpectedModel(X)>>
                     /\ rows = c.rows0
        /\ Done(p, "list_sessions") =>
             LET live == LiveRows(call[p].rows0)
             IN  \A i \in 1..Len(call[p].result) :
                     /\ i <= Len(live)
                     /\ call[p].result[i] = ExpectedModel(live[i])

\* C20 witness: get_session returned the model of a row of type "console",
\* without notebook entry, and the same row is still stored next to the row
\* of a session of type "notebook".
C20_Witness ==
    \E p \in Procs :
        /\ Done(p, "get_session")
        /\ call[p].status = "ok"
        /\ call[p].result[1].type = "console"
        /\ call[p].result[1].notebook = <<>>
        /\ call[p].result[1].kernel = kernel_model(call[p].row.kernel_id)
        /\ rows = call[p].rows0
        /\ \E i, j \in 1..Len(rows) :
             /\ rows[i] = call[p].row
             /\ rows[j].type = "notebook"

\* C21: list_sessions reconciles the rows of its fetchall() snapshot, each
\* exactly once and in snapshot order, whichever of them it deletes on the
\* way: while it waits for kernel_model of snapshot row i it has reconciled
\* rows 1..i, and when it returns it has reconciled the snapshot, no row
\* skipped and none reconciled again.
C21_SnapshotVisitedOnce ==
    \A p \in Procs : call[p].op = "list_sessions" =>
        LET c == call[p]
        IN  /\ c.snap = c.rows0
            /\ c.pc = "kernel_model" =>
                 /\ c.i \in 1..Len(c.snap)
                 /\ c.visited = SubSeq(c.snap, 1, c.i)
            /\ c.pc = "done" => c.visited = c.snap

\* C21 witness: list_sessions returned after it deleted the first row of a
\* snapshot of two, whose kernel was gone, and went on to reconcile the
\* second, whose kernel is alive.
C21_Witness ==
    \E p \in Procs :
        /\ Done(p, "list_sessions")
        /\ Len(call[p].snap) = 2
        /\ call[p].snap[1].kernel_id \notin alive
        /\ call[p].snap[2].kernel_id \in alive
        /\ call[p].culled = {call[p].snap[1].session_id}
        /\ call[p].visited = call[p].snap
        /\ Len(call[p].result) = 1
        /\ Len(rows) = 1

\* C22: a create_session in which get_kernel_path or start_kernel raised
\* hands its caller that exception and has inserted nothing: every row is as
\* it was before the call and no row has the session id generated for it.
C22_FailedCreateInsertsNothing ==
    \A p \in Procs : (Done(p, "create_session") /\ call[p].status # "ok") =>
        LET c == call[p]
        IN  /\ c.status \in {ContentsError, KernelError}
            /\ c.status = ContentsError <=> c.kernel_path = None
            /\ rows = c.rows0
            /\ RowsOf(rows, c.sid) = <<>>
            /\ c.result = <<>>

\* C22 witness: create_session passed on what get_kernel_path raised, a
\* session created earlier being stored.
C22_Witness ==
    \E p \in Procs :
        /\ Done(p, "create_session")
        /\ call[p].status = ContentsError
        /\ Len(rows) = 1
        /\ rows = call[p].rows0

\* C23: session_exists, get_session, update_session, delete_session and
\* create_session execute at most one SELECT and reconcile at most one row
\* in a call, and a call whose reconciliation found the kernel gone has
\* ended at once: session_exists with False, the others with 404.
C23_AtMostOneReconciliation ==
    \A p \in Procs :
        call[p].op \in {"session_exists", "get_session", "update_session",
                        "delete_session", "create_session"} =>
            LET c == call[p]
            IN  /\ c.selects <= 1
                /\ Len(c.visited) <= c.selects
                /\ c.culled # {} =>
                     /\ c.pc = "done"
                     /\ c.visited = <<c.row>>
                     /\ c.culled = {c.row.session_id}
                     /\ IF c.op = "session_exists"
                        THEN c.status = "ok" /\ c.exists = FALSE
                        ELSE c.status = NotFound /\ c.result = <<>>

\* C23 witness: get_session raised 404 for a row whose kernel was gone while
\* another stored row, its kernel alive, agrees with the same keywords.
C23_Witness ==
    \E p \in Procs :
        /\ Done(p, "get_session")
        /\ call[p].status = NotFound
        /\ Len(call[p].visited) = 1
        /\ \E i \in 1..Len(rows) :
             /\ rows[i].kernel_id \in alive
             /\ \A k \in DOMAIN call[p].kwargs : rows[i][k] = call[p].kwargs[k]

\* C24: an assignment to database_filepath is accepted (the trait takes the
\* value) for ":memory:", for a path where nothing exists, for an empty file
\* and for a file that starts with the signature; it raises TraitError, the
\* trait keeping the value it had, for a directory and for a file that is
\* not empty and does not start with the signature.
C24_ValidatesDatabaseFilepath ==
    assigned.status # "none" =>
        LET value == assigned.value
            f == IF value = Memory THEN Absent ELSE files[value]
            signed == /\ Len(f.content) >= 2
                      /\ f.content[1] = "S"
                      /\ f.content[2] = "3"
            accept == \/ value = Memory
                      \/ f.kind = "absent"
                      \/ f.kind = "file" /\ (f.content = <<>> \/ signed)
            reject == \/ f.kind = "dir"
                      \/ f.kind = "file" /\ f.content # <<>> /\ ~signed
        IN  /\ accept => assigned.status = "ok" /\ database_filepath = value
            /\ (value # Memory /\ reject) =>
                  /\ assigned.status = TraitError
                  /\ database_filepath = assigned.before
            /\ accept \/ reject

\* C24 witness: database_filepath names an accepted file; the assignment of
\* the path of a file of three bytes without the signature was refused and
\* the trait still names the first file.
C24_Witness ==
    /\ assigned.status = TraitError
    /\ assigned.before \in DbPaths
    /\ assigned.value \in DbPaths
    /\ assigned.value # assigned.before
    /\ files[assigned.value].kind = "file"
    /\ Len(files[assigned.value].content) = 3
    /\ files[assigned.before].kind = "file"
    /\ database_filepath = assigned.before

\* C25 as claimed: a == b is True exactly when b is a SessionRecord and the
\* session ids of a and b are both present (not None) and equal, or their
\* kernel ids are both present and equal; recorded plays no part.
C25_EqualIffSharedId ==
    compared # "none" =>
        LET a == operands[1]
            b == operands[2]
        IN  compared = "True" <=>
                /\ b.class = "SessionRecord"
                /\ \/ a.session_id # None /\ b.session_id # None
                      /\ a.session_id = b.session_id
                   \/ a.kernel_id # None /\ b.kernel_id # None
                      /\ a.kernel_id = b.kernel_id

\* C25 amended: a == b is True exactly when b is a SessionRecord and the
\* session ids of a and b are both set to a non-empty string and equal, or
\* their kernel ids are both set to a non-empty string and equal; None and
\* "" both count as not set; recorded plays no part.
C25_EqualIffSharedNonEmptyId ==
    compared # "none" =>
        LET a == operands[1]
            b == operands[2]
            set(x) == x \notin {None, ""}
        IN  compared = "True" <=>
                /\ b.class = "SessionRecord"
                /\ \/ set(a.session_id) /\ set(b.session_id)
                      /\ a.session_id = b.session_id
                   \/ set(a.kernel_id) /\ set(b.kernel_id)
                      /\ a.kernel_id = b.kernel_id

\* C25 witness: two records with different session ids and different
\* recorded compared equal, their kernel ids being the same.
C25_Witness ==
    /\ compared = "True"
    /\ operands[1].session_id \in SessionIds
    /\ operands[2].session_id \in SessionIds
    /\ operands[1].session_id # operands[2].session_id
    /\ operands[1].recorded # operands[2].recorded
    /\ operands[1].kernel_id = operands[2].kernel_id

\* the operations made since the last close(), all of them when none was made
SinceClose ==
    LET closes == {i \in 1..Len(oplog) : oplog[i] = "close"}
        last == IF closes = {} THEN 0 ELSE CHOOSE i \in closes : \A j \in closes : j <= i
    IN  SubSeq(oplog, last + 1, Len(oplog))

\* C26: nothing is open before the first storage access; from the first
\* access on every access uses the cursor and the connection that access
\* opened; after close() neither the cursor nor the connection is open; and
\* close() before any access, or again, changes nothing.
C26_HandleLazyAndReleased ==
    LET closed == \E i \in 1..Len(oplog) : oplog[i] = "close"
        used == \E i \in 1..Len(oplog) : oplog[i] = "cursor"
    IN  /\ ~used => _cursor = None /\ _connection = None /\ opened = {}
        /\ (used /\ ~closed) =>
              /\ _cursor # None /\ _connection # None
              /\ opened = {_cursor, _connection}
              /\ \E n \in 1..Len(oplog) :
                    /\ \A i \in 1..(n - 1) : oplog[i] # "cursor"
                    /\ _cursor = sqlite_cursor(n)
                    /\ _connection = sqlite_connection(n)
        /\ (closed /\ SinceClose = <<>>) => _cursor = None /\ opened = {}

\* kernel_id is the id of a kernel that was started and is gone
Died(kernel_id) ==
    /\ \E n \in 1..(nextKid - 1) : kernel_id = new_kernel_id(n)
    /\ kernel_id \notin alive

\* a row of session_id bound to kernel_id is stored
Stored(session_id, kernel_id) ==
    \E i \in 1..Len(rows) :
        rows[i].session_id = session_id /\ rows[i].kernel_id = kernel_id

\* C27: when list_sessions has run to completion no stored row is bound to
\* a kernel that is gone, whether the kernel died with the session never
\* deleted or after a delete_session whose shutdown_kernel raised; and with
\* list_sessions called again and again every row bound to a kernel that
\* died is eventually not stored any more.
C27_EventualCulling ==
    /\ [](\A p \in Procs : Done(p, "list_sessions") =>
            \A i \in 1..Len(rows) : rows[i].kernel_id \in alive)
    /\ \A session_id \in SessionIds, kernel_id \in KernelIds :
          (Stored(session_id, kernel_id) /\ Died(kernel_id))
              ~> ~Stored(session_id, kernel_id)

\* C27 witness: list_sessions returned; a row of its snapshot whose kernel
\* had died is not stored any more, the row of a live kernel is.
C27_Witness ==
    \E p \in Procs :
        /\ Done(p, "list_sessions")
        /\ \E i \in 1..Len(call[p].snap) :
             /\ Died(call[p].snap[i].kernel_id)
             /\ ~Stored(call[p].snap[i].session_id, call[p].snap[i].kernel_id)
        /\ Len(rows) = 1
        /\ rows[1].kernel_id \in alive


\* C28: delete_session of a session whose stored kernel is not in the kernel
\* manager ends in its first step with 404: no row of that session id is
\* stored any more, the rows of other sessions are as they were, and the
\* call never waits for shutdown_kernel (no kernel id was handed to it, no
\* kernel stopped).
C28_DeleteOfDeadKernelCulls ==
    [][\A p \in Procs :
         (/\ call[p].pc = "idle"
          /\ call'[p].op = "delete_session"
          /\ \E i \in 1..Len(rows) : rows[i].session_id = call'[p].sid
          /\ rows[FirstIndex(rows, [session_id |-> call'[p].sid])].kernel_id \notin alive)
         => /\ call'[p].pc = "done"
            /\ call'[p].status = NotFound
            /\ call'[p].shutdown = "none"
            /\ call'[p].kid = None
            /\ alive' = alive
            /\ \A i \in 1..Len(rows') : rows'[i].session_id # call'[p].sid
            /\ rows' = SelectSeq(rows, LAMBDA r : r.session_id # call'[p].sid)]_vars

\* C28 witness: a delete_session has ended with 404 after culling the row of
\* its session, another session's row is still stored, no shutdown was asked
C28_Witness ==
    \E p \in Procs :
        /\ Done(p, "delete_session")
        /\ call[p].status = NotFound
        /\ call[p].culled = {call[p].sid}
        /\ call[p].shutdown = "none"
        /\ Len(call[p].rows0) = 2
        /\ Len(rows) = 1


\* no two rows of rs have the same session_id
DistinctIds(rs) == \A i, j \in 1..Len(rs) : rs[i].session_id = rs[j].session_id => i = j

\* C29: in a table without two rows of one session id, every row that a
\* reconciliation step deletes (its session id enters the culled set of the
\* call that takes the step) carries, when it is deleted, a kernel_id that
\* is not in the kernel manager.
C29_CullsOnlyDeadKernelRows ==
    [][\A p \in Procs : \A i \in 1..Len(rows) :
         (/\ DistinctIds(rows)
          /\ rows[i].session_id \in call'[p].culled \ call[p].culled)
         => rows[i].kernel_id \notin alive]_vars

\* C30: with no other call than delete_session in progress, an
\* update_session that changes path, name or type and returns normally
\* leaves a row of its session id that carries the new values.
C30_SuccessfulUpdateIsStored ==
    [][\A p \in Procs :
         (/\ call[p].pc # "done"
          /\ call'[p].pc = "done"
          /\ call'[p].op = "update_session"
          /\ call'[p].status = "ok"
          /\ DOMAIN call'[p].kwargs # {}
          /\ DOMAIN call'[p].kwargs \subseteq {"path", "name", "type"}
          /\ \A q \in Procs \ {p} : call'[q].op \in {"none", "delete_session"})
         => \E i \in 1..Len(rows') :
               /\ rows'[i].session_id = call'[p].sid
               /\ \A k \in DOMAIN call'[p].kwargs : rows'[i][k] = call'[p].kwargs[k]]_vars


\* C31 as claimed: with no other call than delete_session in progress and
\* a snapshot without two rows of one session id, when list_sessions
\* returns, every model of its result has a stored row of its session id
\* (the half of the claim that kernels dying on their own cannot break).
C31_ListedSessionsStillStored ==
    [][\A p \in Procs :
         (/\ call[p].pc # "done"
          /\ call'[p].pc = "done"
          /\ call'[p].op = "list_sessions"
          /\ DistinctIds(call'[p].snap)
          /\ \A q \in Procs \ {p} : call'[q].op \in {"none", "delete_session"})
         => \A n \in 1..Len(call'[p].result) :
               \E i \in 1..Len(rows') :
                  rows'[i].session_id = call'[p].result[n].id]_vars

\* C31: list_sessions waits for kernel_model only for a row of its snapshot
\* whose kernel is in the kernel manager at that step, and its result grows
\* only by the model of the row it waited for: every model listed is of a
\* row that was stored when the snapshot was taken and whose kernel was
\* alive when the row was reconciled.
C31_ListedSessionsWereReconciled ==
    [][\A p \in Procs :
         call'[p].op = "list_sessions" =>
           /\ (call'[p].pc = "kernel_model" /\ call'[p] # call[p]) =>
                /\ call'[p].row.kernel_id \in alive
                /\ \E i \in 1..Len(call'[p].snap) : call'[p].snap[i] = call'[p].row
           /\ (call[p].op = "list_sessions" /\ call'[p].result # call[p].result) =>
                /\ call[p].pc = "kernel_model"
                /\ call'[p].result =
                     Append(call[p].result,
                            Model(call[p].row, kernel_model(call[p].row.kernel_id)))
           /\ call[p].op # "list_sessions" => call'[p].result = <<>>]_vars

\* C31 witness: list_sessions has returned a model of a session that a
\* concurrent delete_session has deleted meanwhile
C31_Witness ==
    \E p, q \in Procs :
        /\ Done(p, "list_sessions")
        /\ Done(q, "delete_session")
        /\ call[q].status = "ok"
        /\ \E n \in 1..Len(call[p].result) :
              /\ call[p].result[n].id = call[q].sid
              /\ \A i \in 1..Len(rows) : rows[i].session_id # call[q].sid


\* C32: two delete_session calls for one session id never both reach
\* shutdown_kernel with the kernel of that session (kid is the kernel id a
\* call has passed to shutdown_kernel).
C32_ShutdownInvokedOnce ==
    \A p, q \in Procs :
        (/\ p # q
         /\ call[p].op = "delete_session"
         /\ call[q].op = "delete_session"
         /\ call[p].sid = call[q].sid)
        => ~(call[p].kid # None /\ call[p].kid = call[q].kid)


\* C33: when create_session returns a model, storage is storage before the
\* call plus one row, which carries the returned id; when it raises,
\* whatever the reason, no row carries the session id generated for the call.
C33_CreateAllOrNothing ==
    \A p \in Procs : Done(p, "create_session") =>
        LET c == call[p]
        IN  IF c.status = "ok"
            THEN /\ Len(rows) = Len(c.rows0) + 1
                 /\ SubSeq(rows, 1, Len(c.rows0)) = c.rows0
                 /\ rows[Len(rows)].session_id = c.result[1].id
            ELSE \A i \in 1..Len(rows) : rows[i].session_id # c.sid


\* C34: in a table without two rows of one session id, the step in which
\* delete_session(A) returns normally leaves every row of another session
\* whose kernel was in the kernel manager before the step stored as it was,
\* its kernel still in the kernel manager: get_session(session_id=B) finds
\* B after the step as before it.
C34_DeleteAffectsOnlyItsSession ==
    [][\A p \in Procs :
         (/\ call[p].op = "delete_session"
          /\ call[p].pc # "done"
          /\ call'[p].pc = "done"
          /\ call'[p].status = "ok"
          /\ DistinctIds(rows))
         => \A i \in 1..Len(rows) :
               (rows[i].session_id # call[p].sid /\ rows[i].kernel_id \in alive)
               => /\ \E j \in 1..Len(rows') : rows'[j] = rows[i]
                  /\ rows[i].kernel_id \in alive']_vars


\* C35: session_exists(path) returns True whenever a row stored at the
\* call has that path and a kernel that is in the kernel manager.
C35_ExistsIfAnyLiveRowOnPath ==
    \A p \in Procs : Done(p, "session_exists") =>
        ((\E i \in 1..Len(call[p].rows0) :
             /\ call[p].rows0[i].path = call[p].kwargs.path
             /\ call[p].rows0[i].kernel_id \in alive)
         => call[p].exists)


\* C36: for SessionRecords a, b, c the comparisons a == b, b == c, a == c
\* never give True, True, False.
C36_EqualityTransitive == compared # "TTF"


\* the WHERE clause of the SELECT a call executes
Query(c) ==
    CASE c.op = "session_exists" -> [path |-> c.kwargs.path]
      [] c.op = "get_session" -> c.kwargs
      [] OTHER -> [session_id |-> c.sid]

\* C37: a call executes its SELECT and fetches in the step in which it
\* starts, and executes no SELECT in a later step: list_sessions iterates
\* over the rows stored at that step, session_exists and get_session (also
\* inside update_session and delete_session) reconcile the first row stored
\* at that step that their query selects, or find none when none is stored,
\* whatever the other callers do before and after.
C37_ReadsOwnResultSet ==
    [][\A p \in Procs :
         /\ (call[p].pc = "idle" /\ call'[p].op = "list_sessions") =>
              /\ call'[p].snap = rows
              /\ call'[p].selects = 1
         /\ (call[p].pc = "idle" /\ call'[p].op \notin {"none", "list_sessions"}) =>
              LET query == Query(call'[p])
                  selected == {i \in 1..Len(rows) :
                                 \A k \in DOMAIN query : rows[i][k] = query[k]}
              IN  /\ call'[p].selects = 1
                  /\ call'[p].row = IF selected = {}
                                    THEN NoRow
                                    ELSE rows[FirstIndex(rows, query)]
         /\ call[p].pc # "idle" =>
              /\ call'[p].selects = call[p].selects
              /\ call'[p].snap = call[p].snap]_vars

\* C37 witness: list_sessions and get_session are both suspended, each with
\* the rows of its own SELECT; get_session ran its query on another table
\* than the one list_sessions fetched
C37_Witness ==
    \E p, q \in Procs :
        /\ call[p].op = "list_sessions"
        /\ call[p].pc = "kernel_model"
        /\ call[q].op = "get_session"
        /\ call[q].pc = "kernel_model"
        /\ call[q].row # NoRow
        /\ call[q].rows0 # call[p].snap
        /\ Len(call[p].snap) = 2

====
